---- MODULE Spec2Model ----
(***************************************************************************)
(* Model of update_tokens.py: the retry loop of generate_single_token, the *)
(* bounded worker pool and completion loop of parallel_token_generation,   *)
(* and its final summary and failure report.                               *)
(***************************************************************************)
EXTENDS Integers, Sequences, FiniteSets, TLC

VARIABLES
    uidpass_list,       \* the batch: a sequence of items (records read from JSON)
    endpoint,           \* the behaviours the endpoint may show: "any", "steady", "ok-or-empty"
    submitted,          \* number of items handed to executor.submit so far
    status,             \* per item: "new", "pending", "running", "finished", "collected"
    future,             \* per item: what its future holds once the worker is done
    answers,            \* per item: the endpoint script its worker's calls met
    successful_tokens,  \* the success collector
    failed_uids,        \* the failure collector
    completed,          \* the completion counter of the as_completed loop
    dpc,                \* where parallel_token_generation is
    raised,             \* the exception that left parallel_token_generation, or "none"
    success_rate,       \* the final success rate, <<numerator, denominator>> of the percentage
    report,             \* the printed failure listing: [entries, note]
    stage,              \* where the program is: which strategy runs, or how it ended
    region,             \* index of the region being processed
    rpc,                \* where the processing of that region is
    rret,               \* how update_tokens_for_region ended: "True", "False", "raised"
    results,            \* update_all_regions_parallel's list of <<region_name, success>>
    seq_success,        \* update_all_regions_sequential's success flag
    parallel_result,    \* how update_all_regions_parallel ended: "True", "raised"
    token_files,        \* per region: the content of its token file
    dispatched          \* per region: calls of parallel_token_generation so far

(* The state outside parallel_token_generation. *)
outer == <<stage, region, rpc, rret, results, seq_success, parallel_result, token_files,
           dispatched>>

vars == <<uidpass_list, endpoint, submitted, status, future, answers, successful_tokens,
          failed_uids, completed, dpc, raised, success_rate, report, outer>>

----------------------------------------------------------------------------
(* Bounds of the model *)

MaxItems == 3       \* longest batch explored with every item shape (Spec)
PoolItems == 6      \* longest batch explored for the pool's concurrency (SpecPool)
RegionItems == 2    \* longest input list explored for one region (SpecRegion)
MainItems == 1      \* longest input list explored for the whole program (SpecMain)
ScriptLen == 3      \* answers an endpoint script holds (one more than the loop may read)
MaxFailed == 25     \* longest failure collector explored for the report (SpecReport)
MaxSucceeded == 2   \* longest success collector explored for the report (SpecReport)

(* Program constants *)

max_retries == 2
base_delay == 2
max_workers == 5

----------------------------------------------------------------------------
(* Items.  A well-formed item has "uid" and "password"; the JSON file may  *)
(* also hold objects with a key missing.  The uid of the item at position  *)
(* i is i.                                                                 *)

GoodItem(i) == [uid |-> i, password |-> "pw"]
NoPasswordItem(i) == [uid |-> i]
NoUidItem(i) == [password |-> "pw"]

ItemShapes(i) == {GoodItem(i), NoPasswordItem(i), NoUidItem(i)}

RECURSIVE ItemLists(_, _)
ItemLists(n, good) ==
    IF n = 0 THEN {<<>>}
    ELSE {Append(l, it) : l \in ItemLists(n - 1, good),
                          it \in (IF good THEN {GoodItem(n)} ELSE ItemShapes(n))}

----------------------------------------------------------------------------
(* What one requests.get can produce: an exception of the transport, or a  *)
(* response with a status code and a JSON body whose "token" field is      *)
(* absent ("none"), empty, the sentinel "N/A", or a token ("tok").         *)

Statuses == {200, 404, 429, 500}
Payloads == {"none", "", "N/A", "tok"}
Exceptions == {"Timeout", "RequestException", "Exception"}

HttpResponse(s, p) == [exc |-> "none", status |-> s, token |-> p]
Failing(e) == [exc |-> e, status |-> 0, token |-> "none"]

Responses == {HttpResponse(s, p) : s \in Statuses, p \in Payloads}
                \cup {Failing(e) : e \in Exceptions}

Scripts == [1..ScriptLen -> Responses]

ConstScript(r) == [k \in 1..ScriptLen |-> r]

OkResponse == HttpResponse(200, "tok")
EmptyResponse == HttpResponse(200, "N/A")
RateLimitedResponse == HttpResponse(429, "none")

(* The scripts a worker run may meet: any of them, or, where several items *)
(* are explored together, an endpoint that gives the same answer to every  *)
(* call of a run.                                                          *)
SteadyScripts(given) == {ConstScript(r) : r \in given}

EndpointScripts(e) ==
    IF e = "any" THEN Scripts
    ELSE IF e = "steady"
         THEN SteadyScripts({OkResponse, EmptyResponse, RateLimitedResponse})
    ELSE SteadyScripts({OkResponse, EmptyResponse})

(* The token the endpoint issues for a uid. *)
IssuedToken(uid) == "tok" \o ToString(uid)

----------------------------------------------------------------------------
(* The worker: generate_single_token.  Its run is recorded as a log of the *)
(* sleeps it takes and the remote calls it issues, in order.               *)

NoResponse == Failing("none")
Slept(d) == [ev |-> "sleep", d |-> d, resp |-> NoResponse]
Called(r) == [ev |-> "call", d |-> 0, resp |-> r]

RECURSIVE Pow2(_)
Pow2(n) == IF n = 0 THEN 1 ELSE 2 * Pow2(n - 1)

RateLimitWait_doubledEarly(attempt) == 5 * Pow2(attempt + 1)

RateLimitWait(attempt) == 5 * Pow2(attempt)
ServerErrorWait_noPlusOne(attempt) == 3 * attempt

ServerErrorWait(attempt) == 3 * (attempt + 1)
TimeoutWait(attempt) == 5 * (attempt + 1)
NetworkErrorWait(attempt) == 2 * (attempt + 1)
UnknownErrorWait(attempt) == 2 * (attempt + 1)

(* What one pass through the loop body decides. *)
Continue(wait) == [act |-> "continue", wait |-> wait, exc |-> "none", result |-> <<>>]
Return(result) == [act |-> "return", wait |-> 0, exc |-> "none", result |-> result]
Raise(e) == [act |-> "raise", wait |-> 0, exc |-> e, result |-> <<>>]

(* The k-th remote call of a worker gets the k-th answer of its script; a  *)
(* "tok" payload carries the token issued for the uid in the url.          *)
requests_get(item, script, k) ==
    LET r == script[k]
    IN  IF r.exc = "none" /\ r.token = "tok"
        THEN [r EXCEPT !.token = IssuedToken(item.uid)]
        ELSE r

HasMoreAttempts_offByOne(attempt) == attempt < max_retries - 2

HasMoreAttempts(attempt) == attempt < max_retries - 1

LoopExhausted_offByOne(attempt) == attempt > max_retries

(* for attempt in range(max_retries) has run out. *)
LoopExhausted(attempt) == attempt >= max_retries

UsableToken_noSentinel(data) == data.token \notin {"none", ""}

(* data.get("token") and data["token"] != "N/A" *)
UsableToken(data) == data.token \notin {"none", ""} /\ data.token # "N/A"

(* The try block after time.sleep(base_delay). *)
TryBody(item, response, attempt) ==
    IF response.exc # "none" THEN Raise(response.exc)
    ELSE IF response.status = 429 THEN Continue(RateLimitWait(attempt))
    ELSE IF response.status >= 500 THEN Continue(ServerErrorWait(attempt))
    ELSE IF response.status >= 400 THEN Raise("RequestException")
    ELSE IF UsableToken(response)
         THEN Return([token |-> response.token, uid |-> item.uid])
    ELSE IF HasMoreAttempts(attempt) THEN Continue(0)
    ELSE Return([error |-> "No token after retries", uid |-> item.uid])

ExceptClauses_noCatchAll(item, exc, attempt) ==
    IF exc = "Timeout"
    THEN IF HasMoreAttempts(attempt) THEN Continue(TimeoutWait(attempt))
         ELSE Return([error |-> "Timeout after retries", uid |-> item.uid])
    ELSE IF exc = "RequestException"
    THEN IF HasMoreAttempts(attempt) THEN Continue(NetworkErrorWait(attempt))
         ELSE Return([error |-> "Network error", uid |-> item.uid])
    ELSE Raise(exc)

(* The except clauses; the last one, except Exception, takes what the      *)
(* others leave.                                                           *)
ExceptClauses(item, exc, attempt) ==
    IF exc = "Timeout"
    THEN IF HasMoreAttempts(attempt) THEN Continue(TimeoutWait(attempt))
         ELSE Return([error |-> "Timeout after retries", uid |-> item.uid])
    ELSE IF exc = "RequestException"
    THEN IF HasMoreAttempts(attempt) THEN Continue(NetworkErrorWait(attempt))
         ELSE Return([error |-> "Network error", uid |-> item.uid])
    ELSE IF HasMoreAttempts(attempt) THEN Continue(UnknownErrorWait(attempt))
         ELSE Return([error |-> "Unknown error", uid |-> item.uid])

LoopBody(item, response, attempt) ==
    LET t == TryBody(item, response, attempt)
    IN  IF t.act = "raise" THEN ExceptClauses(item, t.exc, attempt) ELSE t

NumCalls(log) == Cardinality({k \in DOMAIN log : log[k].ev = "call"})

Done(result, log) == [exc |-> "none", result |-> result, log |-> log]
Threw(msg) == [exc |-> msg, result |-> <<>>, log |-> <<>>]
(* An exception no except clause takes leaves the worker. *)
Escaped(exc, log) == [exc |-> exc, result |-> <<>>, log |-> log]

RECURSIVE RetryLoop(_, _, _, _)
RetryLoop(item, script, attempt, log) ==
    IF LoopExhausted(attempt)
    THEN Done([error |-> "Max retries exceeded", uid |-> item.uid], log)
    ELSE LET paced == Append(log, Slept(base_delay))
             response == requests_get(item, script, NumCalls(paced) + 1)
             called == Append(paced, Called(response))
             step == LoopBody(item, response, attempt)
         IN  IF step.act = "return" THEN Done(step.result, called)
             ELSE IF step.act = "raise" THEN Escaped(step.exc, called)
             ELSE RetryLoop(item, script, attempt + 1,
                            IF step.wait > 0 THEN Append(called, Slept(step.wait))
                            ELSE called)

generate_single_token(item, script) ==
    IF "uid" \notin DOMAIN item THEN Threw("'uid'")
    ELSE IF "password" \notin DOMAIN item THEN Threw("'password'")
    ELSE RetryLoop(item, script, 0, <<>>)

----------------------------------------------------------------------------
(* The dispatcher: parallel_token_generation.                              *)

N == Len(uidpass_list)
Items == 1..N

NoFuture == [exc |-> "none", result |-> <<>>, log |-> <<>>]
NoRate == <<0, 0>>
NoReport == [entries |-> <<>>, noted |-> FALSE, remaining |-> 0]

Running == {i \in Items : status[i] = "running"}

PoolHasIdleWorker_unbounded == TRUE

(* ThreadPoolExecutor(max_workers=5): a queued item starts only on an idle *)
(* pool thread, and the pool never has more than max_workers threads.      *)
PoolHasIdleWorker == Cardinality(Running) < max_workers

report_last_index_offByOne == 19 + 1

(* The listing of failures at the end of the summary. *)
report_last_index == 19
report_cap == 20

RECURSIVE PrintFailed(_, _, _)
PrintFailed(failed, i, printed) ==
    IF i >= Len(failed)
    THEN [entries |-> printed, noted |-> FALSE, remaining |-> 0]
    ELSE LET lines == Append(printed, failed[i + 1])
             remaining == Len(failed) - report_cap
         IN  IF i >= report_last_index
             THEN [entries |-> lines, noted |-> (remaining > 0),
                   remaining |-> IF remaining > 0 THEN remaining ELSE 0]
             ELSE PrintFailed(failed, i + 1, lines)

FailedReport(failed) ==
    IF failed # <<>> THEN PrintFailed(failed, 0, <<>>) ELSE NoReport

(* executor.submit(generate_single_token, item), one item after the other. *)
Submit ==
    /\ dpc = "pool"
    /\ submitted < N
    /\ submitted' = submitted + 1
    /\ status' = [status EXCEPT ![submitted + 1] = "pending"]
    /\ UNCHANGED <<uidpass_list, endpoint, future, answers, successful_tokens, failed_uids,
                   completed, dpc, raised, success_rate, report>>
    /\ UNCHANGED outer

(* A pool thread takes the oldest queued item and calls the worker on it. *)
Start(i) ==
    /\ status[i] = "pending"
    /\ \A j \in 1..(i - 1) : status[j] # "pending"
    /\ PoolHasIdleWorker
    /\ status' = [status EXCEPT ![i] = "running"]
    /\ UNCHANGED <<uidpass_list, endpoint, submitted, future, answers, successful_tokens,
                   failed_uids, completed, dpc, raised, success_rate, report>>
    /\ UNCHANGED outer

(* The worker runs to its end against one behaviour of the endpoint; its   *)
(* return value or its exception is stored in the future.                  *)
Finish(i) ==
    /\ status[i] = "running"
    /\ \E script \in EndpointScripts(endpoint) :
          LET outcome == generate_single_token(uidpass_list[i], script)
          IN  /\ future' = [future EXCEPT ![i] = outcome]
              /\ answers' = [answers EXCEPT
                                ![i] = IF outcome.log = <<>> THEN <<>> ELSE script]
    /\ status' = [status EXCEPT ![i] = "finished"]
    /\ UNCHANGED <<uidpass_list, endpoint, submitted, successful_tokens, failed_uids,
                   completed, dpc, raised, success_rate, report>>
    /\ UNCHANGED outer

IsSuccess(result) == "token" \in DOMAIN result

Gathered_noElse(result) ==
    IF IsSuccess(result)
    THEN <<Append(successful_tokens, [token |-> result.token]),
           Append(failed_uids, result)>>
    ELSE <<successful_tokens, Append(failed_uids, result)>>

Gathered_prepend(result) ==
    IF IsSuccess(result)
    THEN << <<[token |-> result.token]>> \o successful_tokens, failed_uids>>
    ELSE <<successful_tokens, <<result>> \o failed_uids>>

(* What the try block of the loop does to the two collectors with a        *)
(* worker's return value: <<successful_tokens, failed_uids>> afterwards.   *)
Gathered(result) ==
    IF IsSuccess(result)
    THEN <<Append(successful_tokens, [token |-> result.token]), failed_uids>>
    ELSE <<successful_tokens, Append(failed_uids, result)>>

AllCollected_noWait == submitted = N

(* as_completed has yielded every future: the loop and the with block end. *)
AllCollected == submitted = N /\ completed = N

(* One iteration of `for future in as_completed(future_to_item)`. *)
Collect(i) ==
    /\ dpc = "pool"
    /\ submitted = N
    /\ status[i] = "finished"
    /\ status' = [status EXCEPT ![i] = "collected"]
    /\ completed' = completed + 1
    /\ IF future[i].exc = "none"
       THEN /\ successful_tokens' = Gathered(future[i].result)[1]
            /\ failed_uids' = Gathered(future[i].result)[2]
            /\ UNCHANGED <<dpc, raised>>
       ELSE LET item == uidpass_list[i]
            IN  IF "uid" \in DOMAIN item
                THEN /\ failed_uids' =
                           Append(failed_uids, [error |-> future[i].exc, uid |-> item.uid])
                     /\ UNCHANGED <<successful_tokens, dpc, raised>>
                ELSE /\ dpc' = "unwind"
                     /\ raised' = "KeyError"
                     /\ UNCHANGED <<successful_tokens, failed_uids>>
    /\ UNCHANGED <<uidpass_list, endpoint, submitted, future, answers, success_rate, report>>
    /\ UNCHANGED outer

(* An exception leaving the loop waits in the executor's __exit__ until    *)
(* every submitted item has run, then leaves the function.                 *)
ExitPool ==
    /\ dpc = "unwind"
    /\ \A i \in Items : status[i] \in {"finished", "collected"}
    /\ dpc' = "raised"
    /\ UNCHANGED <<uidpass_list, endpoint, submitted, status, future, answers,
                   successful_tokens,
                   failed_uids, completed, raised, success_rate, report>>
    /\ UNCHANGED outer

(* The final summary, the failure listing and the return. *)
Summarize ==
    /\ dpc = "pool"
    /\ AllCollected
    /\ IF N = 0
       THEN /\ dpc' = "raised"
            /\ raised' = "ZeroDivisionError"
            /\ UNCHANGED <<success_rate, report>>
       ELSE /\ success_rate' = <<100 * Len(successful_tokens), N>>
            /\ report' = FailedReport(failed_uids)
            /\ dpc' = "returned"
            /\ UNCHANGED raised
    /\ UNCHANGED <<uidpass_list, endpoint, submitted, status, future, answers,
                   successful_tokens,
                   failed_uids, completed>>
    /\ UNCHANGED outer

----------------------------------------------------------------------------
(* The orchestration: update_tokens_for_region, the two strategies over    *)
(* the regions, and the main block.                                        *)

Regions == <<"BANGLADESH", "INDIA", "BRAZIL">>

(* A token file: as the program found it, rewritten with a list of tokens, *)
(* or truncated by an open() whose json.dump then failed.                  *)
OldFile == [state |-> "old", tokens |-> <<>>]
WrittenFile(tokens) == [state |-> "written", tokens |-> tokens]
PartialFile == [state |-> "partial", tokens |-> <<>>]

(* parallel_token_generation called on its own, outside the program. *)
Standalone ==
    /\ stage = "standalone"
    /\ region = 0
    /\ rpc = "none"
    /\ rret = "none"
    /\ results = <<>>
    /\ seq_success = TRUE
    /\ parallel_result = "none"
    /\ token_files = [r \in DOMAIN Regions |-> OldFile]
    /\ dispatched = [r \in DOMAIN Regions |-> 0]

(* No batch is being processed. *)
NoBatch ==
    /\ uidpass_list = <<>>
    /\ endpoint = "none"
    /\ submitted = 0
    /\ status = <<>>
    /\ future = <<>>
    /\ answers = <<>>
    /\ successful_tokens = <<>>
    /\ failed_uids = <<>>
    /\ completed = 0
    /\ dpc = "idle"
    /\ raised = "none"
    /\ success_rate = NoRate
    /\ report = NoReport

(* The locals of a call of parallel_token_generation are gone once the     *)
(* caller has used its return value.                                       *)
DropBatch ==
    /\ uidpass_list' = <<>>
    /\ endpoint' = "none"
    /\ submitted' = 0
    /\ status' = <<>>
    /\ future' = <<>>
    /\ answers' = <<>>
    /\ successful_tokens' = <<>>
    /\ failed_uids' = <<>>
    /\ completed' = 0
    /\ dpc' = "idle"
    /\ raised' = "none"
    /\ success_rate' = NoRate
    /\ report' = NoReport

(* The entry of parallel_token_generation(uidpass_list, api_url, region).  *)
EnterBatch(list, e) ==
    /\ uidpass_list' = list
    /\ endpoint' = e
    /\ submitted' = 0
    /\ status' = [i \in 1..Len(list) |-> "new"]
    /\ future' = [i \in 1..Len(list) |-> NoFuture]
    /\ answers' = [i \in 1..Len(list) |-> <<>>]
    /\ successful_tokens' = <<>>
    /\ failed_uids' = <<>>
    /\ completed' = 0
    /\ dpc' = "pool"
    /\ raised' = "none"
    /\ success_rate' = NoRate
    /\ report' = NoReport

batch == <<uidpass_list, endpoint, submitted, status, future, answers, successful_tokens,
           failed_uids, completed, dpc, raised, success_rate, report>>

(* read_json_file: None for a file that cannot be read or parsed, else the *)
(* list the file holds.                                                    *)
None == [readable |-> FALSE, list |-> <<>>]
Parsed(list) == [readable |-> TRUE, list |-> list]

InputBound == IF stage = "region" THEN RegionItems ELSE MainItems

InputFiles ==
    {None} \cup {Parsed(list) : list \in UNION {ItemLists(n, FALSE) : n \in 0..InputBound}}

NotUidpassList_noneOnly(content) == ~content.readable

(* `if not uidpass_list`: None and the empty list alike. *)
NotUidpassList(content) == ~content.readable \/ content.list = <<>>

(* update_tokens_for_region up to the call of the dispatcher. *)
RegionRead ==
    /\ stage \in {"region", "parallel", "sequential"}
    /\ rpc = "call"
    /\ \E content \in InputFiles :
          IF NotUidpassList(content)
          THEN /\ rpc' = "ended"
               /\ rret' = "False"
               /\ UNCHANGED <<batch, dispatched>>
          ELSE /\ EnterBatch(content.list, "steady")
               /\ dispatched' = [dispatched EXCEPT ![region] = @ + 1]
               /\ rpc' = "dispatch"
               /\ UNCHANGED rret
    /\ UNCHANGED <<stage, region, results, seq_success, parallel_result, token_files>>

HasTokens_always(new_tokens) == TRUE

(* `if new_tokens:` *)
HasTokens(new_tokens) == new_tokens # <<>>

WriteOutcomes == {"written", "open failed", "dump failed"}

(* update_tokens_for_region from the dispatcher's return to its own. *)
RegionWrite ==
    /\ rpc = "dispatch"
    /\ dpc = "returned"
    /\ rpc' = "ended"
    /\ IF HasTokens(successful_tokens)
       THEN \E w \in WriteOutcomes :
               /\ token_files' =
                     [token_files EXCEPT
                         ![region] = IF w = "written" THEN WrittenFile(successful_tokens)
                                     ELSE IF w = "dump failed" THEN PartialFile
                                     ELSE @]
               /\ rret' = IF w = "written" THEN "True" ELSE "False"
       ELSE /\ rret' = "False"
            /\ UNCHANGED token_files
    /\ UNCHANGED <<batch, stage, region, results, seq_success, parallel_result, dispatched>>

(* An exception of the dispatcher leaves update_tokens_for_region too. *)
RegionRaise ==
    /\ rpc = "dispatch"
    /\ dpc = "raised"
    /\ rpc' = "ended"
    /\ rret' = "raised"
    /\ UNCHANGED <<batch, stage, region, results, seq_success, parallel_result, token_files,
                   dispatched>>

(* The loops over the regions go on to the next one, or end. *)
Advance ==
    /\ IF region < Len(Regions)
       THEN /\ region' = region + 1
            /\ rpc' = "call"
       ELSE /\ rpc' = "summary"
            /\ UNCHANGED region
    /\ rret' = "none"
    /\ DropBatch

(* One iteration of update_all_regions_parallel's loop, after the call:    *)
(* the result is recorded, an exception is recorded as a failure.          *)
ParallelRecord ==
    /\ stage = "parallel"
    /\ rpc = "ended"
    /\ results' = Append(results, <<Regions[region], rret = "True">>)
    /\ Advance
    /\ UNCHANGED <<stage, seq_success, parallel_result, token_files, dispatched>>

successful_regions == Cardinality({k \in DOMAIN results : results[k][2]})

TooFewRegions_none == successful_regions = 0

(* `if successful_regions < len(regions)` *)
TooFewRegions == successful_regions < Len(Regions)

(* The summary of update_all_regions_parallel and its end. *)
ParallelSummary ==
    /\ stage = "parallel"
    /\ rpc = "summary"
    /\ parallel_result' = IF TooFewRegions THEN "raised" ELSE "True"
    /\ stage' = "main"
    /\ rpc' = "none"
    /\ UNCHANGED <<batch, region, rret, results, seq_success, token_files, dispatched>>

FallsBack_always(result) == result \in {"raised", "True"}

(* `except Exception` of the main block. *)
FallsBack(result) == result = "raised"

(* The main block after update_all_regions_parallel(): the program ends,   *)
(* or update_all_regions_sequential starts.                                *)
Main ==
    /\ stage = "main"
    /\ IF FallsBack(parallel_result)
       THEN /\ stage' = "sequential"
            /\ region' = 1
            /\ rpc' = "call"
            /\ seq_success' = TRUE
       ELSE /\ stage' = "done"
            /\ UNCHANGED <<region, rpc, seq_success>>
    /\ UNCHANGED <<batch, rret, results, parallel_result, token_files, dispatched>>

(* One iteration of update_all_regions_sequential's loop, after the call;  *)
(* an exception leaves the function and the program.                       *)
SequentialRecord ==
    /\ stage = "sequential"
    /\ rpc = "ended"
    /\ IF rret = "raised"
       THEN /\ stage' = "crashed"
            /\ rpc' = "none"
            /\ UNCHANGED <<batch, region, rret, seq_success>>
       ELSE /\ seq_success' = (seq_success /\ rret = "True")
            /\ Advance
            /\ UNCHANGED stage
    /\ UNCHANGED <<results, parallel_result, token_files, dispatched>>

(* The end of update_all_regions_sequential. *)
SequentialEnd ==
    /\ stage = "sequential"
    /\ rpc = "summary"
    /\ stage' = IF seq_success THEN "done" ELSE "failed"
    /\ rpc' = "none"
    /\ UNCHANGED <<batch, region, rret, results, seq_success, parallel_result, token_files,
                   dispatched>>

----------------------------------------------------------------------------
(* Specifications *)


Fresh(list, e) ==
    /\ uidpass_list = list
    /\ endpoint = e
    /\ submitted = 0
    /\ status = [i \in 1..Len(list) |-> "new"]
    /\ future = [i \in 1..Len(list) |-> NoFuture]
    /\ answers = [i \in 1..Len(list) |-> <<>>]
    /\ successful_tokens = <<>>
    /\ failed_uids = <<>>
    /\ completed = 0
    /\ dpc = "pool"
    /\ raised = "none"
    /\ success_rate = NoRate
    /\ report = NoReport
    /\ Standalone

(* Batches of every shape of item, a few endpoint behaviours. *)
Init == \E n \in 0..MaxItems : \E list \in ItemLists(n, FALSE) : Fresh(list, "steady")

Next ==
    \/ Submit
    \/ \E i \in Items : Start(i)
    \/ \E i \in Items : Finish(i)
    \/ \E i \in Items : Collect(i)
    \/ ExitPool
    \/ Summarize

Spec == Init /\ [][Next]_vars

(* The scheduling the threads get: the calling thread goes on submitting,  *)
(* collecting and summarising; an idle pool thread takes the next queued   *)
(* item; a worker whose remote calls all return or time out runs to its    *)
(* end.                                                                    *)
Fairness ==
    /\ WF_vars(Submit)
    /\ \A i \in 1..MaxItems : WF_vars(i \in Items /\ Start(i))
    /\ \A i \in 1..MaxItems : WF_vars(i \in Items /\ Finish(i))
    /\ \A i \in 1..MaxItems : WF_vars(i \in Items /\ Collect(i))
    /\ WF_vars(ExitPool)
    /\ WF_vars(Summarize)

SpecFair == Init /\ [][Next]_vars /\ Fairness

(* One item, every endpoint behaviour: the worker's retry loop. *)
InitWorker == \E list \in ItemLists(1, FALSE) : Fresh(list, "any")

SpecWorker == InitWorker /\ [][Next]_vars

(* Well-formed batches longer than the pool is wide. *)
InitPool ==
    \E n \in 0..PoolItems :
        \E list \in ItemLists(n, TRUE) :
            Fresh(list, "ok-or-empty")

NextPool ==
    \/ Submit
    \/ \E i \in Items : Start(i)
    \/ \E i \in Items : Finish(i)
    \/ \E i \in Items : Collect(i)
    \/ Summarize

SpecPool == InitPool /\ [][NextPool]_vars

(* A batch whose futures have all been collected, with any number of      *)
(* failures: the summary and the failure listing.  Items 1..s succeeded    *)
(* and the others failed, collected in that order.                         *)
ReportRun(s, f) ==
    [i \in 1..(s + f) |->
        generate_single_token(GoodItem(i),
            ConstScript(IF i <= s THEN OkResponse ELSE EmptyResponse))]

InitReport ==
    \E s \in 0..MaxSucceeded : \E f \in 0..MaxFailed :
        /\ uidpass_list \in ItemLists(s + f, TRUE)
        /\ endpoint = "ok-or-empty"
        /\ submitted = s + f
        /\ status = [i \in 1..(s + f) |-> "collected"]
        /\ future = ReportRun(s, f)
        /\ answers = [i \in 1..(s + f) |->
                         ConstScript(IF i <= s THEN OkResponse ELSE EmptyResponse)]
        /\ successful_tokens = [k \in 1..s |-> [token |-> ReportRun(s, f)[k].result.token]]
        /\ failed_uids = [k \in 1..f |-> ReportRun(s, f)[s + k].result]
        /\ completed = s + f
        /\ dpc = "pool"
        /\ raised = "none"
        /\ success_rate = NoRate
        /\ report = NoReport
        /\ Standalone

NextReport == Summarize

SpecReport == InitReport /\ [][NextReport]_vars

(* One call of update_tokens_for_region, for any of the regions. *)
InitRegion ==
    /\ NoBatch
    /\ stage = "region"
    /\ region \in DOMAIN Regions
    /\ rpc = "call"
    /\ rret = "none"
    /\ results = <<>>
    /\ seq_success = TRUE
    /\ parallel_result = "none"
    /\ token_files = [r \in DOMAIN Regions |-> OldFile]
    /\ dispatched = [r \in DOMAIN Regions |-> 0]

NextRegionCall ==
    \/ RegionRead
    \/ Submit
    \/ \E i \in Items : Start(i)
    \/ \E i \in Items : Finish(i)
    \/ \E i \in Items : Collect(i)
    \/ ExitPool
    \/ Summarize
    \/ RegionWrite
    \/ RegionRaise

SpecRegion == InitRegion /\ [][NextRegionCall]_vars

(* The whole program: the main block. *)
InitMain ==
    /\ NoBatch
    /\ stage = "parallel"
    /\ region = 1
    /\ rpc = "call"
    /\ rret = "none"
    /\ results = <<>>
    /\ seq_success = TRUE
    /\ parallel_result = "none"
    /\ token_files = [r \in DOMAIN Regions |-> OldFile]
    /\ dispatched = [r \in DOMAIN Regions |-> 0]

NextMain ==
    \/ RegionRead
    \/ Submit
    \/ \E i \in Items : Start(i)
    \/ \E i \in Items : Finish(i)
    \/ \E i \in Items : Collect(i)
    \/ ExitPool
    \/ Summarize
    \/ RegionWrite
    \/ RegionRaise
    \/ ParallelRecord
    \/ ParallelSummary
    \/ Main
    \/ SequentialRecord
    \/ SequentialEnd

SpecMain == InitMain /\ [][NextMain]_vars

----------------------------------------------------------------------------
(* Properties *)

Recorded == Len(successful_tokens) + Len(failed_uids)

(* The as_completed loop has run to its end. *)
LoopEnded ==
    \/ dpc = "pool" /\ AllCollected
    \/ dpc = "returned"
    \/ raised = "ZeroDivisionError"

(* C1: while the dispatcher collects, after each iteration of the loop the *)
(* two collectors together hold as many entries as completions have been   *)
(* counted; once the loop has collected every future they hold as many     *)
(* entries as items were submitted.  (An iteration whose except clause     *)
(* itself raises, on an item without "uid", ends the loop and the function *)
(* by that exception: no collectors are returned, and the states after it  *)
(* are not states of the collection.)                                      *)
C1_CollectorsCountEveryCompletion ==
    /\ (dpc = "pool" \/ LoopEnded) => Recorded = completed
    /\ LoopEnded => Recorded = N

C1_Witness ==
    /\ dpc = "returned"
    /\ N = MaxItems
    /\ successful_tokens # <<>>
    /\ \E k \in DOMAIN failed_uids : failed_uids[k].error = "'password'"
    /\ \E k \in DOMAIN failed_uids : failed_uids[k].error = "Max retries exceeded"

(* Entries of the two collectors that belong to item i. *)
EntriesOf(i) ==
    Cardinality({k \in DOMAIN successful_tokens :
                    successful_tokens[k].token = IssuedToken(i)})
    + Cardinality({k \in DOMAIN failed_uids : failed_uids[k].uid = i})

(* C2: when the dispatcher returns, every submitted item's worker is done  *)
(* and its future collected, and each item has exactly one entry in the    *)
(* two collectors taken together.                                          *)
C2_ReturnsWithOneOutcomePerItem ==
    dpc = "returned" =>
        /\ \A i \in Items : status[i] = "collected"
        /\ \A i \in Items : EntriesOf(i) = 1
        /\ Recorded = N

C2_Witness ==
    /\ dpc = "returned"
    /\ N = MaxItems
    /\ Len(successful_tokens) >= 1
    /\ Len(failed_uids) >= 2
    /\ failed_uids[1].uid > failed_uids[2].uid

(* C3: at most 5 workers have started and not yet returned.                *)
C3_AtMostFiveInFlight == Cardinality(Running) <= 5

C3_Witness ==
    /\ Cardinality(Running) = 5
    /\ \E i \in Items : status[i] = "pending"

(* The answer carried a usable token. *)
GaveToken(r) == r.exc = "none" /\ r.status = 200 /\ r.token \notin {"none", "", "N/A"}

WorkerReturned(i) == status[i] \in {"finished", "collected"} /\ future[i].exc = "none"

(* C4: a worker issues at most 2 remote calls, and none after a call that  *)
(* was answered with a usable token.                                       *)
C4_AtMostTwoCallsNoneAfterToken ==
    \A i \in Items :
        WorkerReturned(i) =>
            LET log == future[i].log
            IN  /\ NumCalls(log) <= 2
                /\ \A k \in DOMAIN log : \A l \in DOMAIN log :
                      (k < l /\ log[k].ev = "call" /\ GaveToken(log[k].resp))
                          => log[l].ev # "call"

C4_Witness ==
    \E i \in Items :
        /\ WorkerReturned(i)
        /\ NumCalls(future[i].log) = 2
        /\ IsSuccess(future[i].result)

(* The failure kind of an answer, "Success" for a usable token. *)
Kind(r) ==
    IF r.exc = "Timeout" THEN "Timeout"
    ELSE IF r.exc = "RequestException" THEN "NetworkError"
    ELSE IF r.exc = "Exception" THEN "UnknownError"
    ELSE IF r.status = 429 THEN "RateLimited"
    ELSE IF r.status >= 500 THEN "ServerError"
    ELSE IF r.status >= 400 THEN "NetworkError"
    ELSE IF GaveToken(r) THEN "Success"
    ELSE "EmptyResult"

(* The Backoff Policy's wait after failed attempt n (0-based). *)
PolicyWait(kind, n) ==
    IF kind = "RateLimited" THEN 5 * Pow2(n)
    ELSE IF kind = "ServerError" THEN 3 * (n + 1)
    ELSE IF kind = "Timeout" THEN 5 * (n + 1)
    ELSE IF kind \in {"NetworkError", "UnknownError"} THEN 2 * (n + 1)
    ELSE 0

RECURSIVE SumSleeps(_)
SumSleeps(log) ==
    IF log = <<>> THEN 0
    ELSE (IF Head(log).ev = "sleep" THEN Head(log).d ELSE 0) + SumSleeps(Tail(log))

(* The answers of the calls of a log, in order. *)
RECURSIVE CallAnswers(_)
CallAnswers(log) ==
    IF log = <<>> THEN <<>>
    ELSE IF Head(log).ev = "call" THEN <<Head(log).resp>> \o CallAnswers(Tail(log))
    ELSE CallAnswers(Tail(log))

(* Baseline pacing before each call, plus the policy's wait after each     *)
(* failed attempt n that may be retried (n + 1 < 2).                       *)
RECURSIVE PolicySleep(_, _)
PolicySleep(got, n) ==
    IF n >= Len(got) THEN 0
    ELSE 2 + (IF Kind(got[n + 1]) # "Success" /\ n + 1 < 2
              THEN PolicyWait(Kind(got[n + 1]), n) ELSE 0)
           + PolicySleep(got, n + 1)

(* C5: the total time a worker sleeps is one baseline delay of 2 before    *)
(* each remote call plus the policy's wait after each failed attempt that  *)
(* is not the last; nothing is slept after a failed last attempt.          *)
C5_SleepIsPacingPlusPolicyWaits ==
    \A i \in Items :
        WorkerReturned(i) =>
            /\ SumSleeps(future[i].log) = PolicySleep(CallAnswers(future[i].log), 0)
            /\ ~IsSuccess(future[i].result)
                  => future[i].log[Len(future[i].log)].ev = "call"

(* The reason a failure result carries. *)
Reason(result) ==
    IF result.error = "No token after retries" THEN "EmptyResult"
    ELSE IF result.error = "Timeout after retries" THEN "Timeout"
    ELSE IF result.error = "Network error" THEN "NetworkError"
    ELSE IF result.error = "Unknown error" THEN "UnknownError"
    ELSE "MaxRetriesExceeded"

(* C6: a worker that fails because its last attempt failed returns the     *)
(* failure kind of that attempt as its reason, whatever the kind.          *)
C6_ReasonIsKindOfLastAttempt ==
    \A i \in Items :
        (WorkerReturned(i) /\ ~IsSuccess(future[i].result)) =>
            LET got == CallAnswers(future[i].log)
            IN  Reason(future[i].result) = Kind(got[Len(got)])

(* C7: the dispatcher run on an empty list ends by returning, with a       *)
(* success rate of 0 and no exception.                                     *)
C7_EmptyBatchReturnsRateZero ==
    (N = 0 /\ LoopEnded /\ dpc # "pool") =>
        /\ dpc = "returned"
        /\ raised = "none"
        /\ success_rate[1] = 0

Min(a, b) == IF a < b THEN a ELSE b

(* C8: the failure listing holds the first min(F, 20) entries of the       *)
(* failure collector, in its order, and a note of F - 20 more is printed   *)
(* exactly when F > 20.                                                    *)
C8_ReportListsFirstTwenty ==
    dpc = "returned" =>
        LET F == Len(failed_uids)
        IN  /\ report.entries = SubSeq(failed_uids, 1, Min(F, 20))
            /\ report.noted <=> F > 20
            /\ report.noted => report.remaining = F - 20

C8_Witness ==
    /\ dpc = "returned"
    /\ Len(failed_uids) = 25
    /\ Len(report.entries) = 20
    /\ report.noted
    /\ report.remaining = 5

(* The sleeps and calls of a log, in order, without the answers. *)
Steps(log) == [k \in DOMAIN log |-> <<log[k].ev, log[k].d>>]

(* C9: a worker whose first call is answered 429 and whose second call is  *)
(* answered with a usable token returns Success after exactly 2 calls,     *)
(* having slept 2, then 5, then 2.                                         *)
C9_RateLimitedThenSuccess ==
    \A i \in Items :
        (/\ WorkerReturned(i)
         /\ answers[i] # <<>>
         /\ Kind(answers[i][1]) = "RateLimited"
         /\ answers[i][2] = OkResponse) =>
            /\ IsSuccess(future[i].result)
            /\ future[i].result.token = IssuedToken(i)
            /\ NumCalls(future[i].log) = 2
            /\ Steps(future[i].log) =
                  << <<"sleep", 2>>, <<"call", 0>>, <<"sleep", 5>>,
                     <<"sleep", 2>>, <<"call", 0>> >>
            /\ SumSleeps(future[i].log) >= 9

C9_Witness ==
    \E i \in Items :
        /\ WorkerReturned(i)
        /\ answers[i] # <<>>
        /\ Kind(answers[i][1]) = "RateLimited"
        /\ answers[i][2] = OkResponse
        /\ IsSuccess(future[i].result)

(* Every answer of the script is a failure of the same kind. *)
AlwaysFails(script, kind) ==
    kind # "Success" /\ \A k \in DOMAIN script : Kind(script[k]) = kind

(* C10: against an endpoint that fails every call with the same kind, a    *)
(* worker returns a Failure after exactly 2 calls; for EmptyResult the     *)
(* reason is EmptyResult or MaxRetriesExceeded.                            *)
C10_AlwaysFailingTakesTwoCalls ==
    \A i \in Items :
        (/\ WorkerReturned(i)
         /\ answers[i] # <<>>
         /\ AlwaysFails(answers[i], Kind(answers[i][1]))) =>
            /\ ~IsSuccess(future[i].result)
            /\ NumCalls(future[i].log) = 2
            /\ Kind(answers[i][1]) = "EmptyResult"
                  => Reason(future[i].result) \in {"EmptyResult", "MaxRetriesExceeded"}

C10_Witness ==
    \E i \in Items :
        /\ WorkerReturned(i)
        /\ answers[i] # <<>>
        /\ AlwaysFails(answers[i], "EmptyResult")
        /\ Reason(future[i].result) = "EmptyResult"
        /\ NumCalls(future[i].log) = 2

WellFormed(item) == "uid" \in DOMAIN item /\ "password" \in DOMAIN item

IsOutcome(result) ==
    /\ "uid" \in DOMAIN result
    /\ \/ DOMAIN result = {"token", "uid"}
       \/ DOMAIN result = {"error", "uid"} /\ result.error # ""

(* C11: on a well-formed item the worker ends by returning a result, a     *)
(* token or an error with the item's uid, whatever the attempts met; no    *)
(* exception is stored in its future.                                      *)
C11_WorkerReturnsAnOutcome ==
    \A i \in Items :
        (status[i] \in {"finished", "collected"} /\ WellFormed(uidpass_list[i])) =>
            /\ future[i].exc = "none"
            /\ IsOutcome(future[i].result)
            /\ future[i].result.uid = uidpass_list[i].uid

C11_Witness ==
    \E i \in Items :
        /\ status[i] = "finished"
        /\ WellFormed(uidpass_list[i])
        /\ answers[i] # <<>>
        /\ answers[i][1].exc = "Exception"
        /\ answers[i][2].exc = "Exception"
        /\ future[i].result.error = "Unknown error"

(* C12: a worker exception that reaches the dispatcher is recorded as one  *)
(* failure and the loop goes on: the dispatcher is never stopped by it,    *)
(* and when the dispatcher has ended every item has been collected.        *)
C12_WorkerExceptionIsOneFailure ==
    /\ \A i \in Items :
          (status[i] = "collected" /\ future[i].exc # "none") =>
              /\ dpc \in {"pool", "returned"}
              /\ Recorded = completed
    /\ dpc \in {"returned", "raised"} => \A i \in Items : status[i] = "collected"

SuccessEntriesOf(i) ==
    Cardinality({k \in DOMAIN successful_tokens :
                    successful_tokens[k].token = IssuedToken(i)})

LastAnswer(log) == CallAnswers(log)[Len(CallAnswers(log))]

(* C13: every entry of the success list is a {token} record that comes     *)
(* from a worker which returned that token after an answer of status 200   *)
(* carrying it; no entry is empty or "N/A"; and once the dispatcher has    *)
(* returned, the list holds one entry per item whose worker returned a     *)
(* token and none for any other item.                                      *)
C13_SuccessListHoldsOnlyIssuedTokens ==
    /\ \A k \in DOMAIN successful_tokens :
          /\ DOMAIN successful_tokens[k] = {"token"}
          /\ successful_tokens[k].token \notin {"none", "", "N/A"}
          /\ \E i \in Items :
                /\ status[i] = "collected"
                /\ WorkerReturned(i)
                /\ IsSuccess(future[i].result)
                /\ future[i].result.token = successful_tokens[k].token
                /\ LastAnswer(future[i].log).token = successful_tokens[k].token
                /\ LastAnswer(future[i].log).status = 200
                /\ LastAnswer(future[i].log).exc = "none"
    /\ dpc = "returned" =>
          \A i \in Items :
              SuccessEntriesOf(i) =
                  IF WorkerReturned(i) /\ IsSuccess(future[i].result) THEN 1 ELSE 0

C13_Witness ==
    /\ dpc = "returned"
    /\ Len(successful_tokens) = 1
    /\ answers[1][1] = HttpResponse(200, "N/A")
    /\ answers[1][2] = OkResponse

(* The event after the call at position k of the log is a backoff wait: a  *)
(* sleep that is not the baseline delay in front of the next call.         *)
BackoffAfter(log, k) ==
    /\ k + 1 <= Len(log)
    /\ log[k + 1].ev = "sleep"
    /\ k + 2 <= Len(log) => log[k + 2].ev = "sleep"

(* The 0-based number of the attempt whose call is at position k. *)
AttemptAt(log, k) == NumCalls(SubSeq(log, 1, k)) - 1

(* C17: a backoff wait after failed attempt n lasts 5 * 2^n after          *)
(* RateLimited, 3 * (n+1) after ServerError, 5 * (n+1) after Timeout and   *)
(* 2 * (n+1) after NetworkError or UnknownError; after EmptyResult there   *)
(* is no backoff wait, only the baseline delay of the next attempt.        *)
C17_BackoffWaitFollowsKind ==
    \A i \in Items :
        WorkerReturned(i) =>
            LET log == future[i].log
            IN  \A k \in DOMAIN log :
                    log[k].ev = "call" =>
                        LET kind == Kind(log[k].resp)
                            n == AttemptAt(log, k)
                        IN  /\ BackoffAfter(log, k) =>
                                  /\ kind \notin {"Success", "EmptyResult"}
                                  /\ log[k + 1].d = PolicyWait(kind, n)
                            /\ kind = "EmptyResult" =>
                                  /\ ~BackoffAfter(log, k)
                                  /\ k + 1 <= Len(log) =>
                                        /\ log[k + 1] = Slept(2)
                                        /\ log[k + 2].ev = "call"

C17_Witness ==
    \E i \in Items :
        /\ WorkerReturned(i)
        /\ Len(future[i].log) = 6
        /\ Kind(future[i].log[2].resp) = "Timeout"
        /\ future[i].log[3] = Slept(5)
        /\ Kind(future[i].log[5].resp) = "ServerError"
        /\ future[i].log[6] = Slept(6)

(* C18: the collectors change only in a step of the loop that consumes one *)
(* finished future, and that step appends one entry, the consumed item's,  *)
(* at the end of one of the two lists and leaves the other as it is; no    *)
(* step of a worker changes them.  So each list is in consumption order.   *)
C18_OneAppendPerConsumedFuture ==
    [][(successful_tokens' # successful_tokens \/ failed_uids' # failed_uids) =>
          \E i \in Items :
              /\ status[i] = "finished"
              /\ status' = [status EXCEPT ![i] = "collected"]
              /\ completed' = completed + 1
              /\ \/ /\ future[i].exc = "none"
                    /\ IsSuccess(future[i].result)
                    /\ successful_tokens' =
                          Append(successful_tokens, [token |-> future[i].result.token])
                    /\ failed_uids' = failed_uids
                 \/ /\ successful_tokens' = successful_tokens
                    /\ Len(failed_uids') = Len(failed_uids) + 1
                    /\ SubSeq(failed_uids', 1, Len(failed_uids)) = failed_uids
                    /\ failed_uids'[Len(failed_uids')].uid = uidpass_list[i].uid]_vars

C18_Witness ==
    /\ Len(successful_tokens) = 2
    /\ successful_tokens[1].token = IssuedToken(3)
    /\ successful_tokens[2].token = IssuedToken(1)
    /\ Len(failed_uids) = 1
    /\ failed_uids[1].uid = 2

(* Every worker has run to its end and the dispatcher has ended, by        *)
(* returning or by raising.                                                *)
BatchEnds ==
    <>(/\ dpc \in {"returned", "raised"}
       /\ \A i \in Items : status[i] \in {"finished", "collected"})

(* C16: under fair scheduling every worker's outcome is eventually         *)
(* collected and the dispatcher eventually returns its result.             *)
C16_BatchReturnsItsResult ==
    <>(/\ dpc = "returned"
       /\ \A i \in Items : status[i] = "collected")


(* The items of the region's batch whose worker returned a token. *)
Succeeded == {i \in Items : future[i].exc = "none" /\ IsSuccess(future[i].result)}

RegionEnded == rpc = "ended"

InputUnusable == uidpass_list = <<>>

(* The dispatcher returned a batch result without a single success. *)
EveryItemFailed == dpc = "returned" /\ successful_tokens = <<>>

ReportedSuccessful == {k \in DOMAIN results : results[k][2]}

ParallelEnded == parallel_result # "none"

(* C15: update_all_regions_parallel raises if and only if fewer regions    *)
(* were reported successful than the three submitted; it attempts the      *)
(* regions in the order BANGLADESH, INDIA, BRAZIL, and it never ends       *)
(* before all three have been attempted and recorded, whatever failure or  *)
(* exception an earlier region ended with.                                 *)
C15_RaisesIffFewerRegionsSucceeded ==
    /\ \A k \in DOMAIN results : k <= Len(Regions) /\ results[k][1] = Regions[k]
    /\ (stage = "parallel" /\ rpc # "summary") => region = Len(results) + 1
    /\ ParallelEnded =>
          /\ Len(results) = Len(Regions)
          /\ parallel_result = "raised" <=> Cardinality(ReportedSuccessful) < Len(Regions)
          /\ parallel_result = "True" <=> Cardinality(ReportedSuccessful) = Len(Regions)

C15_Witness ==
    /\ parallel_result = "raised"
    /\ results = << <<"BANGLADESH", FALSE>>, <<"INDIA", TRUE>>, <<"BRAZIL", TRUE>> >>
    /\ token_files[2].state = "written"
    /\ token_files[3].state = "written"

SequentialStarted == stage \in {"sequential", "failed", "crashed"}

(* C19: update_all_regions_sequential starts only after                    *)
(* update_all_regions_parallel has ended by raising and never when it      *)
(* returned normally; so the dispatcher is called at most once for a       *)
(* region unless the parallel strategy raised (and then at most twice).    *)
C19_FallbackOnlyAfterParallelRaised ==
    /\ SequentialStarted => parallel_result = "raised"
    /\ parallel_result = "True" => stage \in {"main", "done"}
    /\ stage = "parallel" => parallel_result = "none"
    /\ \A r \in DOMAIN Regions :
          /\ dispatched[r] > 1 => (parallel_result = "raised" /\ stage # "main")
          /\ dispatched[r] <= 2

C19_Witness ==
    /\ stage = "sequential"
    /\ parallel_result = "raised"
    /\ dispatched[1] = 2
    /\ dpc = "pool"

====
